---- MODULE Spec2Model ----
(***************************************************************************)
(* cosmic-screenshot: one run of main().  The run resolves the save        *)
(* directory, asks the screenshot portal for a capture, relocates the      *)
(* captured file (copy + remove across devices, rename otherwise) and      *)
(* reports the outcome through the notification service.                   *)
(*                                                                         *)
(* Paths and strings are sequences of small integers: bytes for paths,     *)
(* code points for strings.  Every filesystem call is one step, so that    *)
(* the states between the calls are visible.                               *)
(***************************************************************************)
EXTENDS Integers, Sequences, FiniteSets, TLC

VARIABLES
    args,        \* Args: interactive, modal, notify, save_dir
    pictures,    \* what dirs::picture_dir() answers (an Option)
    dirState,    \* each directory path: "rw", "ro", "file", "absent"
    dirDev,      \* each directory path: st_dev
    tmpDev,      \* st_dev of the portal's temporary file
    files,       \* content at each file path
    files0,      \* the content when the run started
    pc,          \* position in main / request_screenshot
    picture_dir, \* local of request_screenshot (an Option)
    uri,         \* response.uri(): scheme and path
    path,        \* local `path`: picture_dir.join(filename)
    devDst,      \* .dev() of the destination metadata, 0 before the call
    result,      \* what request_screenshot returned
    steps,       \* the filesystem calls made so far, in order
    portal,      \* how the portal request ended: an error of PortalErrors,
                 \* "captured" (a file URI of the image), "dangling" (a file
                 \* URI with nothing behind it) or "foreign" (another scheme)
    summary,     \* main's `summary`
    body,        \* main's `body`
    notified,    \* the send_notify calls made so far
    log,         \* tracing events of level info / error
    exit         \* "running", or "ok" once main has returned

vars == <<args, pictures, dirState, dirDev, tmpDev, files, files0, pc, picture_dir, uri,
          path, devDst, result, steps, portal, summary, body, notified, log, exit>>

(* ------------------------------ bounds --------------------------------- *)

\* devices are 1..NumDevs
NumDevs == 2
\* the local clock reads a second in 0..MaxSecond of one fixed minute
MaxSecond == 1

Devs == 1..NumDevs

(* ------------------------------ values --------------------------------- *)

None == [some |-> FALSE, val |-> <<>>]
Some(v) == [some |-> TRUE, val |-> v]

\* "/p": a directory whose name is valid UTF-8; the platform pictures
\* directory, when there is one
DirA == <<47, 112>>
\* "/\xFF": a directory whose name is not valid UTF-8
DirB == <<47, 255>>
Dirs == {DirA, DirB}

\* "/t": the path of the file URI the portal answers with; it lies in no
\* directory of Dirs
TmpPath == <<47, 116>>

Schemes == {"file", "http", "data"}

\* ashpd::Error values the portal request can end with
PortalErrors == {"ResponseCancelled", "ResponseOther", "ZbusUnsupported", "ZbusOther"}

Times == {[Y |-> 2024, M |-> 1, D |-> 5, h |-> 9, m |-> 3, s |-> x] : x \in 0..MaxSecond}

(* ------------------------------ errors --------------------------------- *)

NoErr == [kind |-> "none", inner |-> "none", context |-> "none", io |-> "none", dir |-> None]

\* Error::MissingSaveDirectory(args.save_dir)
MissingSaveDirectory(d) == [NoErr EXCEPT !.kind = "MissingSaveDirectory", !.dir = d]

\* Error::SaveScreenshot { error, context }
SaveScreenshot(e, c) == [NoErr EXCEPT !.kind = "SaveScreenshot", !.io = e, !.context = c]

\* Error::Notify(e)
NotifyError(e) == [NoErr EXCEPT !.kind = "Notify", !.inner = e]

\* Error::Ashpd(e), also what `?` makes of an ashpd::Error
Ashpd(e) == [NoErr EXCEPT !.kind = "Ashpd", !.inner = e]

\* Error::cancelled
cancelled(e) == e.kind = "Ashpd" /\ e.inner = "ResponseCancelled"

\* Error::to_user_facing: one message per error kind
to_user_facing(e) ==
    CASE e.kind = "MissingSaveDirectory" -> <<77>>
      [] e.kind = "SaveScreenshot" -> <<83>>
      [] e.kind = "Notify" -> <<78>>
      [] OTHER -> <<80>>

Ok(p) == [tag |-> "Ok", path |-> p, err |-> NoErr]
Err(e) == [tag |-> "Err", path |-> <<>>, err |-> e]
NoResult == [tag |-> "none", path |-> <<>>, err |-> NoErr]

(* --------------------------- pure functions ---------------------------- *)

\* two decimal digits, zero padded (%m %d %H %M %S)
Pad2(n) == <<48 + ((n \div 10) % 10), 48 + (n % 10)>>

\* four decimal digits (%Y)
Pad4(n) == Pad2(n \div 100) \o Pad2(n % 100)

\* date.format("%Y-%m-%d_%H-%M-%S")
FormatDate(t) ==
    Pad4(t.Y) \o <<45>> \o Pad2(t.M) \o <<45>> \o Pad2(t.D) \o <<95>>
        \o Pad2(t.h) \o <<45>> \o Pad2(t.m) \o <<45>> \o Pad2(t.s)

\* format!("Screenshot_{}.png", ...)
Filename(t) ==
    <<83, 99, 114, 101, 101, 110, 115, 104, 111, 116, 95>> \o FormatDate(t)
        \o <<46, 112, 110, 103>>

\* PathBuf::join with a relative component
Join(d, name) == IF d # <<>> /\ d[Len(d)] = 47 THEN d \o name ELSE d \o <<47>> \o name

\* Path::to_string_lossy: a byte that is not UTF-8 becomes U+FFFD
to_string_lossy(p) == [i \in 1..Len(p) |-> IF p[i] < 128 THEN p[i] ELSE 65533]

\* Path::is_dir
is_dir(d) == dirState[d] \in {"rw", "ro"}

DestPaths == {Join(d, Filename(t)) : d \in Dirs, t \in Times}
Paths == {TmpPath} \cup DestPaths

(* ------------------------- the operating system ------------------------ *)

\* the outcomes of a filesystem call: "ok" unless the call has to fail, and
\* an I/O error at any time
IoOutcomes(forced) == IF forced = "none" THEN {"ok", "EIO"} ELSE {forced, "EIO"}

\* stat of the destination directory
MetaDstForced(d) == IF dirState[d] = "absent" THEN "ENOENT" ELSE "none"

\* stat of the temporary file
MetaSrcForced(p) == IF files[p] = "absent" THEN "ENOENT" ELSE "none"

\* creating or truncating `to` inside directory d
CopyForced(d, to) ==
    CASE dirState[d] = "file" -> "ENOTDIR"
      [] dirState[d] = "absent" -> "ENOENT"
      [] dirState[d] = "ro" /\ files[to] = "absent" -> "EACCES"
      [] OTHER -> "none"

\* linking the temporary file's name into directory d
RenameForced(d) ==
    CASE dirState[d] = "file" -> "ENOTDIR"
      [] dirDev[d] # tmpDev -> "EXDEV"
      [] dirState[d] = "absent" -> "ENOENT"
      [] dirState[d] = "ro" -> "EACCES"
      [] OTHER -> "none"

Step(op, o) == [op |-> op, ok |-> (o = "ok"), io |-> o]

(* --------------------------- request_screenshot ------------------------ *)

\* ResolvePictureDir without the fallback to the platform directory
ResolvePictureDirNoFallback(a, pics) ==
    IF a.interactive
    THEN [ok |-> TRUE, dir |-> None, err |-> NoErr]
    ELSE IF a.save_dir.some /\ is_dir(a.save_dir.val)
         THEN [ok |-> TRUE, dir |-> a.save_dir, err |-> NoErr]
         ELSE [ok |-> FALSE, dir |-> None, err |-> MissingSaveDirectory(a.save_dir)]

\* lines 87-95: the value of `picture_dir`, or the error of `?`
ResolvePictureDir(a, pics) ==
    IF a.interactive
    THEN [ok |-> TRUE, dir |-> None, err |-> NoErr]
    ELSE LET filtered == IF a.save_dir.some /\ is_dir(a.save_dir.val) THEN a.save_dir ELSE None
             chosen == IF filtered.some THEN filtered ELSE pics
         IN IF chosen.some
            THEN [ok |-> TRUE, dir |-> chosen, err |-> NoErr]
            ELSE [ok |-> FALSE, dir |-> None, err |-> MissingSaveDirectory(a.save_dir)]

\* DevicesDiffer with the device test lost: always copy + remove
DevicesDifferAlways(dst, src) == TRUE

\* lines 113-125: the test that selects copy + remove
DevicesDiffer(dst, src) == dst # src

\* SavedPath returning the URI's path, as line 144 does
SavedPathFromUri(p) == Ok(TmpPath)

\* line 142 and line 144: the Ok values
SavedPath(p) == Ok(to_string_lossy(p))
PortalPath(u) == Ok(u.path)

\* SchemeIsFile with the scheme never looked at
SchemeIsFileAny(sc) == TRUE

\* line 107: the arm of the match on uri.scheme()
SchemeIsFile(sc) == sc = "file"

\* lines 147-150: the error for any other scheme
SchemeError == Ashpd("ZbusUnsupported")

\* the context labels of lines 116, 122, 129, 133, 138
CtxMetaDst == "metadata for screenshot destination"
\* CtxMetaSrc pasted from the lookup above it
CtxMetaSrcPasted == "metadata for screenshot destination"
CtxMetaSrc == "metadata for temporary path"
CtxCopy == "copying screenshot"
CtxRemove == "removing temporary screenshot"
CtxRename == "moving screenshot"

Init ==
    /\ \E i \in BOOLEAN, mo \in BOOLEAN, n \in BOOLEAN, sd \in {None} \cup {Some(d) : d \in Dirs} :
           args = [interactive |-> i, modal |-> mo, notify |-> n, save_dir |-> sd]
    /\ pictures \in {None, Some(DirA)}
    /\ dirState \in [Dirs -> {"rw", "ro", "file", "absent"}]
    /\ dirDev \in [Dirs -> Devs]
    \* a directory is looked at only in a run that is not interactive, and
    \* only if --save-dir or the platform names it: the others are left out
    \* of the enumeration
    /\ \A d \in Dirs : (args.interactive \/ (Some(d) # args.save_dir /\ Some(d) # pictures))
                          => (dirState[d] = "absent" /\ dirDev[d] = 1)
    /\ tmpDev \in Devs
    /\ \E c \in {"absent", "old"} : files = [p \in Paths |-> IF p = TmpPath THEN "absent" ELSE c]
    /\ files0 = files
    /\ pc = "start"
    /\ picture_dir = None
    /\ uri = [scheme |-> "none", path |-> <<>>]
    /\ path = <<>>
    /\ devDst = 0
    /\ result = NoResult
    /\ steps = <<>>
    /\ portal = "none"
    /\ summary = "none"
    /\ body = <<>>
    /\ notified = <<>>
    /\ log = <<>>
    /\ exit = "running"

\* lines 87-95
ResolveDir ==
    /\ pc = "start"
    /\ LET r == ResolvePictureDir(args, pictures)
       IN IF r.ok
          THEN /\ picture_dir' = r.dir
               /\ pc' = "request"
               /\ UNCHANGED result
          ELSE /\ result' = Err(r.err)
               /\ pc' = "report"
               /\ UNCHANGED picture_dir
    /\ UNCHANGED <<args, pictures, dirState, dirDev, files0, tmpDev, files, uri, path, devDst,
                   steps, portal, summary, body, notified, log, exit>>

\* lines 97-102: the request fails, the user cancels, or a response arrives
RequestFails ==
    /\ pc = "request"
    /\ \E e \in PortalErrors :
           /\ portal' = e
           /\ result' = Err(Ashpd(e))
    /\ pc' = "report"
    /\ UNCHANGED <<args, pictures, dirState, dirDev, files0, tmpDev, files, picture_dir, uri, path,
                   devDst, steps, summary, body, notified, log, exit>>

\* lines 97-104: the portal answers with a URI; behind a file URI there is
\* the captured image, or nothing at that path
RequestResponds ==
    /\ pc = "request"
    /\ \E sc \in Schemes :
           /\ uri' = [scheme |-> sc, path |-> TmpPath]
           /\ IF sc = "file"
              THEN \E c \in {"image", "absent"} :
                       /\ files' = [files EXCEPT ![TmpPath] = c]
                       /\ portal' = IF c = "image" THEN "captured" ELSE "dangling"
              ELSE /\ portal' = "foreign"
                   /\ UNCHANGED files
    /\ pc' = "match"
    /\ UNCHANGED <<args, pictures, dirState, dirDev, files0, tmpDev, picture_dir, path, devDst,
                   result, steps, summary, body, notified, log, exit>>

\* lines 106-112 and 143-150
MatchScheme ==
    /\ pc = "match"
    /\ IF SchemeIsFile(uri.scheme)
       THEN IF picture_dir.some
            THEN /\ \E t \in Times : path' = Join(picture_dir.val, Filename(t))
                 /\ pc' = "meta_dst"
                 /\ UNCHANGED <<result, log>>
            ELSE /\ result' = PortalPath(uri)
                 /\ pc' = "report"
                 /\ UNCHANGED <<path, log>>
       ELSE /\ log' = Append(log, "Unsupported URL scheme")
            /\ result' = Err(SchemeError)
            /\ pc' = "report"
            /\ UNCHANGED path
    /\ UNCHANGED <<args, pictures, dirState, dirDev, files0, tmpDev, files, picture_dir, uri, devDst,
                   steps, portal, summary, body, notified, exit>>

\* MetaDst with the error of the lookup dropped
MetaDstUnchecked ==
    /\ pc = "meta_dst"
    /\ \E o \in IoOutcomes(MetaDstForced(picture_dir.val)) :
           /\ steps' = Append(steps, Step("metadata_dst", o))
           /\ devDst' = IF o = "ok" THEN dirDev[picture_dir.val] ELSE 0
    /\ pc' = "meta_src"
    /\ UNCHANGED <<args, pictures, dirState, dirDev, files0, tmpDev, files, picture_dir, uri,
                   path, result, portal, summary, body, notified, log, exit>>

\* lines 113-118
MetaDst ==
    /\ pc = "meta_dst"
    /\ \E o \in IoOutcomes(MetaDstForced(picture_dir.val)) :
           /\ steps' = Append(steps, Step("metadata_dst", o))
           /\ IF o = "ok"
              THEN /\ devDst' = dirDev[picture_dir.val]
                   /\ pc' = "meta_src"
                   /\ UNCHANGED result
              ELSE /\ result' = Err(SaveScreenshot(o, CtxMetaDst))
                   /\ pc' = "report"
                   /\ UNCHANGED devDst
    /\ UNCHANGED <<args, pictures, dirState, dirDev, files0, tmpDev, files, picture_dir, uri, path,
                   portal, summary, body, notified, log, exit>>

\* lines 119-125
MetaSrc ==
    /\ pc = "meta_src"
    /\ \E o \in IoOutcomes(MetaSrcForced(uri.path)) :
           /\ steps' = Append(steps, Step("metadata_src", o))
           /\ IF o = "ok"
              THEN /\ pc' = IF DevicesDiffer(devDst, tmpDev) THEN "copy" ELSE "rename"
                   /\ UNCHANGED result
              ELSE /\ result' = Err(SaveScreenshot(o, CtxMetaSrc))
                   /\ pc' = "report"
    /\ UNCHANGED <<args, pictures, dirState, dirDev, files0, tmpDev, files, picture_dir, uri, path,
                   devDst, portal, summary, body, notified, log, exit>>

\* Copy with the error of fs::copy dropped
CopyUnchecked ==
    /\ pc = "copy"
    /\ \E o \in IoOutcomes(CopyForced(picture_dir.val, path)) :
           /\ steps' = Append(steps, Step("copy", o))
           /\ IF o = "ok"
              THEN files' = [files EXCEPT ![path] = files[uri.path]]
              ELSE IF o = "EIO" /\ CopyForced(picture_dir.val, path) = "none"
                   THEN \E c \in {files[path], "partial"} : files' = [files EXCEPT ![path] = c]
                   ELSE UNCHANGED files
    /\ pc' = "remove"
    /\ UNCHANGED <<args, pictures, dirState, dirDev, files0, tmpDev, picture_dir, uri, path,
                   devDst, result, portal, summary, body, notified, log, exit>>

\* lines 127-130: a copy that fails half way leaves a partial destination
Copy ==
    /\ pc = "copy"
    /\ \E o \in IoOutcomes(CopyForced(picture_dir.val, path)) :
           /\ steps' = Append(steps, Step("copy", o))
           /\ IF o = "ok"
              THEN /\ files' = [files EXCEPT ![path] = files[uri.path]]
                   /\ pc' = "remove"
                   /\ UNCHANGED result
              ELSE /\ IF o = "EIO"
                         /\ CopyForced(picture_dir.val, path) = "none"
                      THEN \E c \in {files[path], "partial"} :
                               files' = [files EXCEPT ![path] = c]
                      ELSE UNCHANGED files
                   /\ result' = Err(SaveScreenshot(o, CtxCopy))
                   /\ pc' = "report"
    /\ UNCHANGED <<args, pictures, dirState, dirDev, files0, tmpDev, picture_dir, uri, path, devDst,
                   portal, summary, body, notified, log, exit>>

\* lines 131-134 and 142
Remove ==
    /\ pc = "remove"
    /\ \E o \in IoOutcomes("none") :
           /\ steps' = Append(steps, Step("remove", o))
           /\ IF o = "ok"
              THEN /\ files' = [files EXCEPT ![uri.path] = "absent"]
                   /\ result' = SavedPath(path)
              ELSE /\ result' = Err(SaveScreenshot(o, CtxRemove))
                   /\ UNCHANGED files
    /\ pc' = "report"
    /\ UNCHANGED <<args, pictures, dirState, dirDev, files0, tmpDev, picture_dir, uri, path, devDst,
                   portal, summary, body, notified, log, exit>>

\* lines 136-139 and 142
Rename ==
    /\ pc = "rename"
    /\ \E o \in IoOutcomes(RenameForced(picture_dir.val)) :
           /\ steps' = Append(steps, Step("rename", o))
           /\ IF o = "ok"
              THEN /\ files' = [files EXCEPT ![path] = files[uri.path], ![uri.path] = "absent"]
                   /\ result' = SavedPath(path)
              ELSE /\ result' = Err(SaveScreenshot(o, CtxRename))
                   /\ UNCHANGED files
    /\ pc' = "report"
    /\ UNCHANGED <<args, pictures, dirState, dirDev, files0, tmpDev, picture_dir, uri, path, devDst,
                   portal, summary, body, notified, log, exit>>

(* --------------------------------- main -------------------------------- *)

\* Outcome without the test for cancellation
OutcomeNoCancel(r) ==
    IF r.tag = "Ok"
    THEN [summary |-> "Screenshot captured", body |-> r.path, log |-> "Screenshot saved"]
    ELSE [summary |-> "Screenshot failed", body |-> to_user_facing(r.err),
          log |-> "Screenshot failed"]

\* lines 165-179: (summary, body, log line) for a result
Outcome(r) ==
    IF r.tag = "Ok"
    THEN [summary |-> "Screenshot captured", body |-> r.path, log |-> "Screenshot saved"]
    ELSE IF ~cancelled(r.err)
         THEN [summary |-> "Screenshot failed", body |-> to_user_facing(r.err),
               log |-> "Screenshot failed"]
         ELSE [summary |-> "Screenshot cancelled", body |-> <<>>, log |-> "Screenshot cancelled"]

\* ShouldNotify with the flag ignored
ShouldNotifyAlways(a) == TRUE

\* line 181: whether send_notify is called
ShouldNotify(a) == a.notify

\* lines 165-181; main returns when notifications are off
Report ==
    /\ pc = "report"
    /\ LET o == Outcome(result)
       IN /\ summary' = o.summary
          /\ body' = o.body
          /\ log' = Append(log, o.log)
    /\ IF ShouldNotify(args)
       THEN pc' = "notify" /\ UNCHANGED exit
       ELSE pc' = "done" /\ exit' = "ok"
    /\ UNCHANGED <<args, pictures, dirState, dirDev, files0, tmpDev, files, picture_dir, uri, path,
                   devDst, result, steps, portal, notified>>

\* send_notify, lines 63-83: the session connection, the proxy or the call
\* itself can fail
NotifyOutcomes == {"ok", "connection", "proxy", "call"}

\* lines 182-185: the call of send_notify, its error logged
Notify ==
    /\ pc = "notify"
    /\ \E o \in NotifyOutcomes :
           /\ notified' = Append(notified, [summary |-> summary, body |-> body,
                                            ret |-> IF o = "ok" THEN NoErr ELSE NotifyError(o)])
           /\ log' = IF o = "ok" THEN log ELSE Append(log, "Failed to post notification on completion")
    /\ pc' = "done"
    /\ exit' = "ok"
    /\ UNCHANGED <<args, pictures, dirState, dirDev, files0, tmpDev, files, picture_dir, uri, path,
                   devDst, result, steps, portal, summary, body>>

Next ==
    \/ ResolveDir
    \/ RequestFails
    \/ RequestResponds
    \/ MatchScheme
    \/ MetaDst
    \/ MetaSrc
    \/ Copy
    \/ Remove
    \/ Rename
    \/ Report
    \/ Notify

Spec == Init /\ [][Next]_vars

\* main is one sequential task: a step that can be taken is taken
FairSpec == Spec /\ WF_vars(Next)

(* ------------------------------ the claims ----------------------------- *)

StepOps == [i \in 1..Len(steps) |-> steps[i].op]
AllOk == \A i \in 1..Len(steps) : steps[i].ok
MoveOps == {"copy", "remove", "rename"}
MoveTaken == \E i \in 1..Len(steps) : steps[i].op \in MoveOps
Returned == result.tag # "none"
FileResponse == portal \in {"captured", "dangling"}
GeneratedPath == \E t \in Times : path = Join(picture_dir.val, Filename(t))

\* C1: a non-interactive run with a file URI whose destination directory is
\* on another device than the temporary file, once it has succeeded, has made
\* exactly the calls metadata, metadata, copy, remove, all successful; the
\* destination <directory>/<generated filename> holds the image, the
\* temporary path is gone and the value returned is the destination path as
\* a string.
Thm_C1 ==
    (/\ result.tag = "Ok"
     /\ ~args.interactive
     /\ FileResponse
     /\ picture_dir.some
     /\ dirDev[picture_dir.val] # tmpDev)
    => /\ StepOps = <<"metadata_dst", "metadata_src", "copy", "remove">>
       /\ AllOk
       /\ GeneratedPath
       /\ files[path] = "image"
       /\ files[uri.path] = "absent"
       /\ result.path = to_string_lossy(path)

Wit_C1 ==
    /\ pc = "done"
    /\ result.tag = "Ok"
    /\ ~args.interactive
    /\ portal = "captured"
    /\ picture_dir.some
    /\ dirDev[picture_dir.val] # tmpDev
    /\ StepOps = <<"metadata_dst", "metadata_src", "copy", "remove">>
    /\ files[path] = "image"

\* C2: a non-interactive run with a file URI whose destination directory is
\* on the same device as the temporary file never copies and never removes;
\* once it has succeeded it has made exactly the calls metadata, metadata,
\* rename, the temporary path is gone, the destination holds the image and
\* the value returned is the destination path as a string.
Thm_C2 ==
    (/\ ~args.interactive
     /\ FileResponse
     /\ picture_dir.some
     /\ dirDev[picture_dir.val] = tmpDev)
    => /\ \A i \in 1..Len(steps) : steps[i].op \notin {"copy", "remove"}
       /\ result.tag = "Ok"
            => /\ StepOps = <<"metadata_dst", "metadata_src", "rename">>
               /\ AllOk
               /\ GeneratedPath
               /\ files[path] = "image"
               /\ files[uri.path] = "absent"
               /\ result.path = to_string_lossy(path)

Wit_C2 ==
    /\ pc = "done"
    /\ result.tag = "Ok"
    /\ ~args.interactive
    /\ portal = "captured"
    /\ picture_dir.some
    /\ dirDev[picture_dir.val] = tmpDev
    /\ StepOps = <<"metadata_dst", "metadata_src", "rename">>
    /\ files[uri.path] = "absent"

\* C3: a URI whose scheme is not "file" makes request_screenshot fail with
\* an error of kind UnsupportedScheme, which no failure of the portal
\* request itself can produce.
CE_C3 ==
    (portal = "foreign" /\ Returned)
    => /\ result.tag = "Err"
       /\ result.err.kind = "UnsupportedScheme"
       /\ result.err \notin {Ashpd(e) : e \in PortalErrors}

\* C4: after a URI whose scheme is not "file" no filesystem call is ever
\* made and every file holds what it held when the run started.
Thm_C4 ==
    (portal = "foreign") => (steps = <<>> /\ files = files0)

Wit_C4 ==
    /\ pc = "done"
    /\ portal = "foreign"
    /\ ~args.interactive
    /\ picture_dir.some
    /\ result.tag = "Err"

\* C5: without --save-dir and not interactive, the destination directory is
\* the platform pictures directory, and the run fails with
\* MissingSaveDirectory when there is none; MissingSaveDirectory is raised
\* only when the run is not interactive, --save-dir names no directory and
\* there is no platform pictures directory.
Thm_C5 ==
    (pc # "start")
    => /\ (~args.interactive /\ ~args.save_dir.some)
            => IF pictures.some
               THEN picture_dir = pictures /\ result.err.kind # "MissingSaveDirectory"
               ELSE result = Err(MissingSaveDirectory(None)) /\ portal = "none"
       /\ (result.err.kind = "MissingSaveDirectory")
            => /\ ~args.interactive
               /\ ~pictures.some
               /\ ~(args.save_dir.some /\ is_dir(args.save_dir.val))

Wit_C5 ==
    /\ pc = "done"
    /\ ~args.interactive
    /\ ~args.save_dir.some
    /\ ~pictures.some
    /\ result.err.kind = "MissingSaveDirectory"

Wit_C5_Fallback ==
    /\ pc = "done"
    /\ ~args.interactive
    /\ ~args.save_dir.some
    /\ pictures.some
    /\ result.tag = "Ok"

\* C6: a cancelled portal request ends with the summary "Screenshot
\* cancelled", no other outcome has that summary, and no filesystem call is
\* made.
Thm_C6 ==
    /\ (portal = "ResponseCancelled")
         => /\ steps = <<>>
            /\ files = files0
            /\ result.tag = "Err"
            /\ pc \in {"notify", "done"} => summary = "Screenshot cancelled"
            /\ \A i \in 1..Len(notified) : notified[i].summary = "Screenshot cancelled"
    /\ (summary = "Screenshot cancelled") => portal = "ResponseCancelled"

Wit_C6 ==
    /\ pc = "done"
    /\ portal = "ResponseCancelled"
    /\ summary = "Screenshot cancelled"
    /\ Len(notified) = 1

\* the summary that belongs to the outcome of the run
ExpectedSummary ==
    IF result.tag = "Ok" THEN "Screenshot captured"
    ELSE IF portal = "ResponseCancelled" THEN "Screenshot cancelled"
    ELSE "Screenshot failed"

Terminated == pc = "done" /\ exit = "ok"

C7_State ==
    /\ Len(notified) <= 1
    /\ (notified # <<>>)
         => /\ args.notify
            /\ Returned
            /\ notified[1].summary = ExpectedSummary
    /\ (~args.notify) => notified = <<>>
    /\ (exit # "running") => Terminated
    /\ Terminated
         => /\ Returned
            /\ summary = ExpectedSummary
            /\ Len(notified) = IF args.notify THEN 1 ELSE 0

\* C7: every run terminates normally, whatever request_screenshot returned;
\* with notifications on exactly one notification is attempted, after the
\* outcome is known and with the summary of that outcome, with them off
\* none is; the notification's own failure changes neither the outcome nor
\* the exit status.
Thm_C7 ==
    /\ []C7_State
    /\ [][Returned => (result' = result /\ (summary # "none" => summary' = summary))]_vars
    /\ <>Terminated

Wit_C7 ==
    /\ Terminated
    /\ result.tag = "Err"
    /\ Len(notified) = 1
    /\ notified[1].ret.kind = "Notify"

\* C8 as stated: a copy, remove or rename is only attempted on a destination
\* directory that exists and is writable.
CE_C8 ==
    MoveTaken => dirState[picture_dir.val] = "rw"

\* C8 amended: a copy, remove or rename is only attempted after the metadata
\* lookup of the destination has succeeded, so on a destination that
\* exists; a missing destination ends the run at that lookup.
Thm_C8 ==
    /\ MoveTaken
         => /\ steps[1] = Step("metadata_dst", "ok")
            /\ dirState[picture_dir.val] # "absent"
    /\ (picture_dir.some /\ dirState[picture_dir.val] = "absent" /\ steps # <<>>)
         => /\ Len(steps) = 1
            /\ result.tag = "Err"
            /\ result.err.context = "metadata for screenshot destination"

Wit_C8 ==
    /\ pc = "done"
    /\ MoveTaken
    /\ dirState[picture_dir.val] = "ro"
    /\ result.tag = "Err"

Wit_C8_Missing ==
    /\ pc = "done"
    /\ picture_dir.some
    /\ dirState[picture_dir.val] = "absent"
    /\ steps # <<>>

IsPrefix(a, b) == Len(a) <= Len(b) /\ \A i \in 1..Len(a) : a[i] = b[i]

\* the label that names each sub-step
LabelOf(op) ==
    CASE op = "metadata_dst" -> "metadata for screenshot destination"
      [] op = "metadata_src" -> "metadata for temporary path"
      [] op = "copy" -> "copying screenshot"
      [] op = "remove" -> "removing temporary screenshot"
      [] op = "rename" -> "moving screenshot"

\* C9: the filesystem calls made are a prefix of metadata-destination,
\* metadata-source, copy, remove or of metadata-destination,
\* metadata-source, rename; only the last call made can have failed, and
\* then the run has ended with a SaveScreenshot error carrying that call's
\* label and I/O error; a SaveScreenshot error is never returned otherwise.
Thm_C9 ==
    /\ \/ IsPrefix(StepOps, <<"metadata_dst", "metadata_src", "copy", "remove">>)
       \/ IsPrefix(StepOps, <<"metadata_dst", "metadata_src", "rename">>)
    /\ \A i \in 1..(Len(steps) - 1) : steps[i].ok
    /\ (steps # <<>> /\ ~steps[Len(steps)].ok)
         => /\ pc \in {"report", "notify", "done"}
            /\ result = Err(SaveScreenshot(steps[Len(steps)].io, LabelOf(steps[Len(steps)].op)))
    /\ (result.err.kind = "SaveScreenshot")
         => (steps # <<>> /\ ~steps[Len(steps)].ok)
    /\ \A a \in MoveOps \cup {"metadata_dst", "metadata_src"} :
           \A b \in MoveOps \cup {"metadata_dst", "metadata_src"} :
               (a # b) => LabelOf(a) # LabelOf(b)

Wit_C9 ==
    /\ pc = "done"
    /\ StepOps = <<"metadata_dst", "metadata_src", "copy", "remove">>
    /\ ~steps[4].ok
    /\ result.err.context = "removing temporary screenshot"

\* C10: once the portal has captured the image, it is at the temporary path
\* or at the destination path in every state; a failed copy or rename leaves
\* it at the temporary path.
Thm_C10 ==
    (portal = "captured")
    => /\ \/ files[uri.path] = "image"
          \/ (path # <<>> /\ files[path] = "image")
       /\ (steps # <<>> /\ ~steps[Len(steps)].ok)
            => files[uri.path] = "image"

Wit_C10 ==
    /\ pc = "done"
    /\ portal = "captured"
    /\ StepOps = <<"metadata_dst", "metadata_src", "copy">>
    /\ ~steps[3].ok
    /\ files[path] = "partial"
    /\ files[uri.path] = "image"

====
